---- MODULE Spec2Model ----
(***************************************************************************)
(* A model of tripsettle's settlement engine (src/tripsettle): money       *)
(* rounding and reconciliation (utils.py), split strategies                *)
(* (strategies.py), the balance engine, the debt simplification loop and   *)
(* the settlement summary (compute.py), and the Event that owns people and *)
(* activities (models.py).                                                 *)
(*                                                                         *)
(* Money is an integer number of mills (0.001): one cent is 10 mills, so   *)
(* Decimal("0.02") is 20 and the half-cent Decimal("0.005") is 5.  A       *)
(* quotient that Decimal holds before it is rounded (amount / n, amount *  *)
(* weight) is kept as the pair numerator, denominator.                     *)
(***************************************************************************)
EXTENDS Integers, Sequences, FiniteSets, TLC

VARIABLES
    people,            \* Event.people: the sequence of Person records
    activities,        \* Event.activities: the sequence of Activity records
    balances,          \* the balance mapping a computation is given or returns
    tolerance,         \* the tolerance argument of the running computation
    remainder,         \* the remainder argument of distribute_remainder
    working_balances,  \* compute_minimal_transfers' working copy; the adjusted copy in utils
    transfers,         \* the list of SettlementTransfer built or returned
    summary,           \* the mapping compute_settlement_summary returns
    pc,                \* the operation that ran last, or the position in the loop
    err,               \* the exception the last operation raised, or "none"
    raised_by,         \* the function that raised it, or "none"
    heap,              \* the dict objects alive, by object identity
    argument,          \* the identity of the dict the caller passed
    returned,          \* the identity of the dict returned to the caller, or 0
    input,             \* the arguments of a call of a pure function
    result             \* what that call returned

vars == <<people, activities, balances, tolerance, remainder, working_balances,
          transfers, summary, pc, err, raised_by, heap, argument, returned,
          input, result>>

\* the variables that hold object identities; the specifications that pass
\* mappings by value leave them empty
refs == <<heap, argument, returned>>

no_refs == heap = <<>> /\ argument = 0 /\ returned = 0

\* the variables of a call of a pure function; the other specifications
\* leave them empty
call == <<input, result>>

no_call == input = <<>> /\ result = <<>>

----------------------------------------------------------------------------
(* Bounds of the model *)

\* an Event holds at most this many activities
MaxActivities == 3
\* the balance mappings given to the pure functions hold values of at most
\* this many cents, in steps of half a cent
MaxCents == 3

----------------------------------------------------------------------------
(* Generic helpers *)

NoMap == <<>>

Abs(x) == IF x < 0 THEN -x ELSE x

Min(a, b) == IF a <= b THEN a ELSE b

Range(s) == {s[i] : i \in DOMAIN s}

RECURSIVE SumOver(_, _)
\* sum(f[x] for x in S)
SumOver(f, S) ==
    IF S = {} THEN 0
    ELSE LET x == CHOOSE y \in S : TRUE IN f[x] + SumOver(f, S \ {x})

\* sum(balances.values())
SumValues(f) == SumOver(f, DOMAIN f)

RECURSIVE SumSeq(_)
SumSeq(s) == IF s = <<>> THEN 0 ELSE Head(s) + SumSeq(Tail(s))

----------------------------------------------------------------------------
(* utils.py: round_money *)

Cent == 10

RECURSIVE Pow10(_)
Pow10(n) == IF n = 0 THEN 1 ELSE 10 * Pow10(n - 1)

\* mutant: ROUND_HALF_UP, a tie goes away from zero
quantize_half_up(num, den, places) ==
    LET quantum == Pow10(3 - places)
        d == den * quantum
        a == Abs(num)
        n == IF 2 * (a % d) < d THEN a \div d ELSE (a \div d) + 1
    IN (IF num < 0 THEN -1 ELSE 1) * n * quantum

\* Decimal.quantize(Decimal(10) ** -places, rounding=ROUND_HALF_EVEN) of the
\* exact quotient num / den (in mills, den > 0): the nearest multiple of the
\* quantum, and of two equally near ones the one whose last digit is even.
quantize(num, den, places) ==
    LET quantum == Pow10(3 - places)
        d == den * quantum
        a == Abs(num)
        fl == a \div d
        r == a % d
        n == IF 2 * r < d THEN fl
             ELSE IF 2 * r > d THEN fl + 1
             ELSE IF fl % 2 = 0 THEN fl ELSE fl + 1
    IN (IF num < 0 THEN -1 ELSE 1) * n * quantum

MoneyPlaces == 2

round_money(amount) == quantize(amount, 1, MoneyPlaces)

----------------------------------------------------------------------------
(* models.py: Person.  uuid4 ids are unique; the universe fixes the name   *)
(* and the id of each person an Event can hold.  Two people share a name,  *)
(* and the order of the names differs from the order of the ids.           *)

NameOrder == <<"Al", "Bo", "Cy">>

NameRank(name) == CHOOSE i \in DOMAIN NameOrder : NameOrder[i] = name

Person(name, id) == [name |-> name, id |-> id]

Persons == <<Person("Bo", 1), Person("Al", 2), Person("Bo", 3)>>

PersonSet == Range(Persons)

\* Python's tuple comparison of two sort keys <<number, name, id>>
KeyLess(k1, k2) ==
    \/ k1[1] < k2[1]
    \/ k1[1] = k2[1] /\ NameRank(k1[2]) < NameRank(k2[2])
    \/ k1[1] = k2[1] /\ k1[2] = k2[2] /\ k1[3] < k2[3]

\* the first element of sorted(S, key=...), key a function on S
First(S, key) == CHOOSE p \in S : \A q \in S \ {p} : KeyLess(key[p], key[q])

RECURSIVE Sorted(_, _)
\* sorted(S, key=...) as a sequence
Sorted(S, key) ==
    IF S = {} THEN <<>>
    ELSE LET p == First(S, key) IN <<p>> \o Sorted(S \ {p}, key)

----------------------------------------------------------------------------
(* utils.py: distribute_remainder, ensure_zero_sum.  A call returns the    *)
(* record [err, value]: the exception raised or "none", and the mapping    *)
(* returned (NoMap when it raised).                                        *)

Raise(e) == [err |-> e, value |-> NoMap]

Return(v) == [err |-> "none", value |-> v]

\* mutant: the guard written `abs(remainder) >= tolerance`
exceeds_tolerance_inclusive(rem, tol) == Abs(rem) >= tol

\* the guard `abs(remainder) > tolerance`
exceeds_tolerance(rem, tol) == Abs(rem) > tol

RECURSIVE distribute(_, _, _, _)
\* the for loop of distribute_remainder over sorted_people: one increment per
\* person until remainder_remaining is 0 or the people run out
distribute(adjusted, sorted_people, remainder_remaining, increment) ==
    IF sorted_people = <<>> \/ remainder_remaining = 0 THEN adjusted
    ELSE distribute([adjusted EXCEPT ![Head(sorted_people)] = @ + increment],
                    Tail(sorted_people), remainder_remaining - increment,
                    increment)

\* mutant: the people sorted by balance instead of absolute balance
sorted_people_signed(b) ==
    Sorted(DOMAIN b, [p \in DOMAIN b |-> <<b[p], p.name, p.id>>])

\* sorted(balances.keys(), key=(abs(balance), name, id))
sorted_people(b) ==
    Sorted(DOMAIN b, [p \in DOMAIN b |-> <<Abs(b[p]), p.name, p.id>>])

distribute_remainder(b, rem, tol) ==
    IF exceeds_tolerance(rem, tol) THEN Raise("RoundingError")
    ELSE IF rem = 0 THEN Return(b)
    ELSE Return(distribute(b, sorted_people(b), rem,
                           IF rem > 0 THEN Cent ELSE -Cent))

ensure_zero_sum(b, tol) ==
    LET total == SumValues(b) IN
    IF Abs(total) <= tol
    THEN IF total # 0 THEN distribute_remainder(b, total, tol) ELSE Return(b)
    ELSE Raise("RoundingError")

NetTolerance == 20

\* compute_net_balances, lines 43-49: round every accumulated balance, then
\* ensure_zero_sum with tolerance 0.02
reconcile(accumulated) ==
    ensure_zero_sum([p \in DOMAIN accumulated |-> round_money(accumulated[p])],
                    NetTolerance)

----------------------------------------------------------------------------
(* models.py: Activity.  The payer is the tagged variant Single(person) or *)
(* Split(list of <<person, amount>>); weights and shares are mappings from *)
(* Person, NoMap for None or {}.  A supplied weight is an integer number   *)
(* of hundredths (Decimal("0.51") is 51); a stored weight is the pair      *)
(* <<numerator, denominator>>, so that w / weight_sum is exact.  The       *)
(* description, the currency and the activity's own uuid are not modelled. *)

Single(person) == [tag |-> "Single", list |-> <<<<person, 0>>>>]

Split(list) == [tag |-> "Split", list |-> list]

WeightOne == 100

WeightTolerance == 1

\* validate_amount raises ValidationError
negative(amount) == amount < 0

\* get_payers that returns only the first of several payers
get_payers_first_only(activity) ==
    IF activity.payer.tag = "Single"
    THEN <<<<activity.payer.list[1][1], activity.amount>>>>
    ELSE <<activity.payer.list[1]>>

\* Activity.get_payers
get_payers(activity) ==
    IF activity.payer.tag = "Split" THEN activity.payer.list
    ELSE <<<<activity.payer.list[1][1], activity.amount>>>>

\* mutant: sums accepted up to two cents from the amount
sum_mismatch_two_cents(total, amount) == Abs(total - amount) > 2 * Cent

\* abs(payer_total - self.amount) > Decimal("0.01"), and the same check of
\* shares_sum
sum_mismatch(total, amount) == Abs(total - amount) > Cent

\* the weights Activity.__post_init__ leaves in self.weights
stored_weights(split_strategy, weights) ==
    LET weight_sum == SumValues(weights)
        renormalize == /\ split_strategy = "WEIGHTED"
                       /\ Abs(weight_sum - WeightOne) > WeightTolerance
    IN [p \in DOMAIN weights |->
          <<weights[p], IF renormalize THEN weight_sum ELSE WeightOne>>]

\* Activity(...): __post_init__ raises ValidationError or the activity stands
Activity(amount, payer, participants, split_strategy, weights, shares) ==
    LET payer_total == SumSeq([i \in DOMAIN payer.list |-> payer.list[i][2]])
        weight_sum == SumValues(weights)
        shares_sum == SumValues(shares)
    IN
    IF negative(amount) THEN Raise("ValidationError")
    ELSE IF participants = <<>> THEN Raise("ValidationError")
    ELSE IF payer.tag = "Split" /\ payer.list = <<>> THEN Raise("ValidationError")
    ELSE IF payer.tag = "Split" /\ sum_mismatch(payer_total, amount)
         THEN Raise("ValidationError")
    ELSE IF payer.tag = "Split" /\ \E i \in DOMAIN payer.list : negative(payer.list[i][2])
         THEN Raise("ValidationError")
    ELSE IF split_strategy = "WEIGHTED" /\ weights = NoMap
         THEN Raise("ValidationError")
    ELSE IF /\ split_strategy = "WEIGHTED"
            /\ Abs(weight_sum - WeightOne) > WeightTolerance
            /\ ~(weight_sum > 0)
         THEN Raise("ValidationError")
    ELSE IF split_strategy = "FIXED_SHARES" /\ shares = NoMap
         THEN Raise("ValidationError")
    ELSE IF split_strategy = "FIXED_SHARES" /\ sum_mismatch(shares_sum, amount)
         THEN Raise("ValidationError")
    ELSE IF split_strategy = "FIXED_SHARES" /\ \E p \in DOMAIN shares : negative(shares[p])
         THEN Raise("ValidationError")
    ELSE Return([amount |-> amount, payer |-> payer, participants |-> participants,
                 split_strategy |-> split_strategy,
                 weights |-> stored_weights(split_strategy, weights),
                 shares |-> shares])

----------------------------------------------------------------------------
(* strategies.py.  A share query returns [err, value].                     *)

\* mutant: the amount divided by the number of distinct participants
compute_equal_share_distinct(activity, participant) ==
    IF participant \notin Range(activity.participants) THEN Raise("StrategyError")
    ELSE Return(quantize(activity.amount,
                         Cardinality(Range(activity.participants)), MoneyPlaces))

compute_equal_share(activity, participant) ==
    IF participant \notin Range(activity.participants) THEN Raise("StrategyError")
    ELSE Return(quantize(activity.amount, Len(activity.participants), MoneyPlaces))

compute_weighted_share(activity, participant) ==
    IF activity.weights = NoMap THEN Raise("StrategyError")
    ELSE IF participant \notin DOMAIN activity.weights THEN Raise("StrategyError")
    ELSE Return(quantize(activity.amount * activity.weights[participant][1],
                         activity.weights[participant][2], MoneyPlaces))

\* mutant: a participant without an entry owes nothing
compute_fixed_share_default_zero(activity, participant) ==
    IF activity.shares = NoMap THEN Raise("StrategyError")
    ELSE IF participant \notin DOMAIN activity.shares THEN Return(0)
    ELSE Return(round_money(activity.shares[participant]))

compute_fixed_share(activity, participant) ==
    IF activity.shares = NoMap THEN Raise("StrategyError")
    ELSE IF participant \notin DOMAIN activity.shares THEN Raise("StrategyError")
    ELSE Return(round_money(activity.shares[participant]))

compute_participant_share(activity, participant) ==
    IF activity.split_strategy = "EQUAL"
    THEN compute_equal_share(activity, participant)
    ELSE IF activity.split_strategy = "WEIGHTED"
    THEN compute_weighted_share(activity, participant)
    ELSE IF activity.split_strategy = "FIXED_SHARES"
    THEN compute_fixed_share(activity, participant)
    ELSE Raise("StrategyError")

\* the dict over the participants; the first failing query raises
compute_all_shares(activity) ==
    LET ps == Range(activity.participants) IN
    IF \E p \in ps : compute_participant_share(activity, p).err # "none"
    THEN Raise("StrategyError")
    ELSE Return([p \in ps |-> compute_participant_share(activity, p).value])

----------------------------------------------------------------------------
(* models.py: SettlementTransfer *)

\* SettlementTransfer.__post_init__: validate_amount, then round_money
SettlementTransfer(from_person, to_person, amount) ==
    [from_person |-> from_person, to_person |-> to_person,
     amount |-> round_money(amount)]

----------------------------------------------------------------------------
(* compute.py: compute_minimal_transfers *)

creditors(wb, tol) == {p \in DOMAIN wb : wb[p] > tol}

debtors(wb, tol) == {p \in DOMAIN wb : wb[p] < -tol}

\* creditors.sort(key=(-balance, name, id)); creditors[0]
creditor_person(wb, tol) ==
    First(creditors(wb, tol), [p \in DOMAIN wb |-> <<-wb[p], p.name, p.id>>])

\* mutant: the debtor nearest to zero is taken
debtor_person_smallest_debt(wb, tol) ==
    First(debtors(wb, tol), [p \in DOMAIN wb |-> <<-wb[p], p.name, p.id>>])

\* debtors.sort(key=(balance, name, id)); debtors[0]
debtor_person(wb, tol) ==
    First(debtors(wb, tol), [p \in DOMAIN wb |-> <<wb[p], p.name, p.id>>])

\* transfer_amount = round_money(min(creditor_balance, -debtor_balance))
transfer_amount(wb, tol) ==
    round_money(Min(wb[creditor_person(wb, tol)], -wb[debtor_person(wb, tol)]))

\* mutant: the transfer recorded creditor -> debtor
loop_transfer_reversed(wb, tol) ==
    SettlementTransfer(creditor_person(wb, tol), debtor_person(wb, tol),
                       transfer_amount(wb, tol))

\* the transfer one iteration of the loop appends
loop_transfer(wb, tol) ==
    SettlementTransfer(debtor_person(wb, tol), creditor_person(wb, tol),
                       transfer_amount(wb, tol))

\* mutant: the line `working_balances[debtor_person] += transfer_amount` dropped
loop_update_debtor_forgotten(wb, tol) ==
    LET c == creditor_person(wb, tol)
        t == transfer_amount(wb, tol)
    IN [p \in DOMAIN wb |-> IF p = c THEN round_money(wb[p] - t) ELSE wb[p]]

\* mutant: the line `working_balances[creditor_person] -= transfer_amount` dropped
loop_update_creditor_forgotten(wb, tol) ==
    LET d == debtor_person(wb, tol)
        t == transfer_amount(wb, tol)
    IN [p \in DOMAIN wb |-> IF p = d THEN round_money(wb[p] + t) ELSE wb[p]]

\* the working balances after one iteration of the loop
loop_update(wb, tol) ==
    LET c == creditor_person(wb, tol)
        d == debtor_person(wb, tol)
        t == transfer_amount(wb, tol)
    IN [p \in DOMAIN wb |->
          IF p = c THEN round_money(wb[p] - t)
          ELSE IF p = d THEN round_money(wb[p] + t)
          ELSE wb[p]]

\* the condition of `if not creditors or not debtors: break`
loop_done(wb, tol) == creditors(wb, tol) = {} \/ debtors(wb, tol) = {}

\* mutant: the final check written `balance > tolerance`, without abs
final_check_without_abs(wb, tol) == \E p \in DOMAIN wb : wb[p] > tol

\* the final check: some remaining balance exceeds the tolerance
final_check_fails(wb, tol) == \E p \in DOMAIN wb : Abs(wb[p]) > tol

\* mutant: the transfers returned in the order the loop generated them
sort_transfers_omitted(ts) == ts

\* transfers.sort(key=(from name, from id, to name, to id)); list.sort is
\* stable, so equal keys keep the order the loop generated them in
RECURSIVE sort_transfers(_)
sort_transfers(ts) ==
    IF ts = <<>> THEN <<>>
    ELSE LET Less(a, b) ==
                 \/ KeyLess(<<0, a.from_person.name, a.from_person.id>>,
                            <<0, b.from_person.name, b.from_person.id>>)
                 \/ /\ a.from_person = b.from_person
                    /\ KeyLess(<<0, a.to_person.name, a.to_person.id>>,
                               <<0, b.to_person.name, b.to_person.id>>)
             i == CHOOSE j \in DOMAIN ts :
                     /\ \A k \in DOMAIN ts : ~Less(ts[k], ts[j])
                     /\ \A k \in 1..(j - 1) : Less(ts[j], ts[k])
             rest == [k \in 1..(Len(ts) - 1) |-> IF k < i THEN ts[k] ELSE ts[k + 1]]
         IN <<ts[i]>> \o sort_transfers(rest)

RECURSIVE simplify(_, _, _)
\* the while loop, run to its break: the working balances and the transfers
\* in the order the loop generated them
simplify(wb, ts, tol) ==
    IF loop_done(wb, tol) THEN [working_balances |-> wb, transfers |-> ts]
    ELSE simplify(loop_update(wb, tol), Append(ts, loop_transfer(wb, tol)), tol)

DefaultTolerance == 20

\* compute_minimal_transfers(balances, tolerance), as one call
compute_minimal_transfers(b, tol) ==
    LET r == simplify(b, <<>>, tol) IN
    IF final_check_fails(r.working_balances, tol)
    THEN [err |-> "RoundingError", transfers |-> <<>>]
    ELSE [err |-> "none", transfers |-> sort_transfers(r.transfers)]

----------------------------------------------------------------------------
(* compute.py: compute_net_balances, compute_settlement_summary *)

\* what the payers of one activity paid to p
paid_in(activity, p) ==
    LET payers == get_payers(activity) IN
    SumSeq([i \in DOMAIN payers |-> IF payers[i][1] = p THEN payers[i][2] ELSE 0])

\* the people one activity names: a mapping keyed by event.people has no
\* entry for anybody else (KeyError)
named_in(activity) ==
    Range(activity.participants)
        \cup {get_payers(activity)[i][1] : i \in DOMAIN get_payers(activity)}

RECURSIVE accumulate_rounding_each(_, _)
\* mutant: every balance rounded after each activity instead of once at the end
accumulate_rounding_each(b, acts) ==
    IF acts = <<>> THEN Return(b)
    ELSE LET activity == Head(acts)
             shares == compute_all_shares(activity)
         IN IF shares.err # "none" THEN Raise(shares.err)
            ELSE IF ~(named_in(activity) \subseteq DOMAIN b) THEN Raise("KeyError")
            ELSE accumulate_rounding_each(
                   [p \in DOMAIN b |->
                      round_money(
                        b[p]
                        - (IF p \in DOMAIN shares.value THEN shares.value[p] ELSE 0)
                        + paid_in(activity, p))],
                   Tail(acts))

RECURSIVE accumulate(_, _)
\* the loop over event.activities: each participant's share subtracted, each
\* payer's amount added
accumulate(b, acts) ==
    IF acts = <<>> THEN Return(b)
    ELSE LET activity == Head(acts)
             shares == compute_all_shares(activity)
         IN IF shares.err # "none" THEN Raise(shares.err)
            ELSE IF ~(named_in(activity) \subseteq DOMAIN b) THEN Raise("KeyError")
            ELSE accumulate(
                   [p \in DOMAIN b |->
                      b[p]
                      - (IF p \in DOMAIN shares.value THEN shares.value[p] ELSE 0)
                      + paid_in(activity, p)],
                   Tail(acts))

compute_net_balances(ppl, acts) ==
    LET accumulated == accumulate([p \in Range(ppl) |-> 0], acts) IN
    IF accumulated.err # "none" THEN accumulated
    ELSE reconcile(accumulated.value)

RECURSIVE total_paid(_, _)
total_paid(acts, p) ==
    IF acts = <<>> THEN 0 ELSE paid_in(Head(acts), p) + total_paid(Tail(acts), p)

\* mutant: only the first activity's share is counted
total_owed_first_only(acts, p) ==
    IF acts = <<>> THEN 0
    ELSE LET shares == compute_all_shares(Head(acts)).value IN
         IF p \in DOMAIN shares THEN shares[p] ELSE 0

RECURSIVE total_owed(_, _)
total_owed(acts, p) ==
    IF acts = <<>> THEN 0
    ELSE LET shares == compute_all_shares(Head(acts)).value IN
         (IF p \in DOMAIN shares THEN shares[p] ELSE 0) + total_owed(Tail(acts), p)

compute_settlement_summary(ppl, acts, b) ==
    IF \E i \in DOMAIN acts : compute_all_shares(acts[i]).err # "none"
    THEN Raise("StrategyError")
    ELSE IF \E i \in DOMAIN acts : ~(named_in(acts[i]) \subseteq Range(ppl))
    THEN Raise("KeyError")
    ELSE IF ~(Range(ppl) \subseteq DOMAIN b) THEN Raise("KeyError")
    ELSE Return([p \in Range(ppl) |->
                   [paid |-> round_money(total_paid(acts, p)),
                    owed |-> round_money(total_owed(acts, p)),
                    net |-> b[p]]])

----------------------------------------------------------------------------
(* models.py: Event.  add_person, add_activity and compute_settlement on   *)
(* an Event that starts empty.  The k-th person added is Persons[k]; the   *)
(* arguments of add_activity are drawn from ActivityRequests.              *)

Request(amount, payer, participants, split_strategy, weights, shares) ==
    [amount |-> amount, payer |-> payer, participants |-> participants,
     split_strategy |-> split_strategy, weights |-> weights, shares |-> shares]

Al == Persons[2]
Bo == Persons[1]
Bob == Persons[3]

\* EQUAL splits paid by one person, in whole cents
EqualRequests ==
    { Request(20, Single(Bo), <<Bob>>, "EQUAL", NoMap, NoMap),
      Request(20, Single(Al), <<Bob>>, "EQUAL", NoMap, NoMap),
      Request(20, Single(Bo), <<Bo>>, "EQUAL", NoMap, NoMap),
      Request(20, Single(Bob), <<Bo, Al, Bob>>, "EQUAL", NoMap, NoMap),
      Request(10, Single(Bo), <<Bo, Bob>>, "EQUAL", NoMap, NoMap),
      Request(20, Single(Bo), <<Bob, Bob>>, "EQUAL", NoMap, NoMap) }

\* the scenario of the requirements: $150 equal among A, B, C paid by A; $60
\* equal among A, B paid by B; $90 weighted 2:1 among B, C paid by C
ScenarioRequests ==
    { Request(150000, Single(Al), <<Al, Bo, Bob>>, "EQUAL", NoMap, NoMap),
      Request(60000, Single(Bo), <<Al, Bo>>, "EQUAL", NoMap, NoMap),
      Request(90000, Single(Bob), <<Bo, Bob>>, "WEIGHTED",
              (Bo :> 200) @@ (Bob :> 100), NoMap) }

\* amounts and payments that are not whole cents
HalfCentRequests ==
    { Request(5, Single(Bo), <<Al>>, "EQUAL", NoMap, NoMap),
      Request(20, Split(<<<<Bo, 5>>, <<Al, 15>>>>), <<Bo, Al>>, "EQUAL", NoMap, NoMap) }

\* several payers: amounts that sum to the total, that miss it by a cent,
\* that miss it by more, a negative one, and no payer at all
SplitRequests ==
    { Request(20, Split(<<<<Bo, 10>>, <<Al, 10>>>>), <<Bob>>, "EQUAL", NoMap, NoMap),
      Request(20, Split(<<<<Bo, 10>>, <<Al, 20>>>>), <<Bo, Al>>, "EQUAL", NoMap, NoMap),
      Request(20, Split(<<<<Bo, 0>>, <<Al, 0>>>>), <<Bo, Al>>, "EQUAL", NoMap, NoMap),
      Request(20, Split(<<<<Bo, -10>>, <<Al, 30>>>>), <<Bo, Al>>, "EQUAL", NoMap, NoMap),
      Request(20, Split(<<>>), <<Bo, Al>>, "EQUAL", NoMap, NoMap) }

\* WEIGHTED: weights that sum to 1.01 (kept as they are), a participant
\* without a weight, no weights, weights that sum to 0
WeightedRequests ==
    { Request(1000, Single(Bo), <<Bo, Al>>, "WEIGHTED", (Bo :> 50) @@ (Al :> 51), NoMap),
      Request(20, Single(Bo), <<Bo, Bob>>, "WEIGHTED", (Bo :> 100), NoMap),
      Request(20, Single(Bo), <<Bo, Bob>>, "WEIGHTED", NoMap, NoMap),
      Request(20, Single(Bo), <<Bo, Bob>>, "WEIGHTED", (Bo :> 0) @@ (Bob :> 0), NoMap) }

\* FIXED_SHARES: shares that sum to the amount, that miss it by a cent, that
\* miss it by more, a participant without a share, a negative share, no shares
FixedRequests ==
    { Request(20, Single(Bob), <<Bo, Al>>, "FIXED_SHARES", NoMap, (Bo :> 10) @@ (Al :> 10)),
      Request(20, Single(Bob), <<Bo, Al>>, "FIXED_SHARES", NoMap, (Bo :> 10) @@ (Al :> 20)),
      Request(20, Single(Bob), <<Bo, Al>>, "FIXED_SHARES", NoMap, (Bo :> 20) @@ (Al :> 20)),
      Request(20, Single(Bo), <<Bo, Al>>, "FIXED_SHARES", NoMap, (Bo :> 20)),
      Request(20, Single(Bo), <<Bo, Al>>, "FIXED_SHARES", NoMap, (Bo :> -10) @@ (Al :> 30)),
      Request(20, Single(Bo), <<Bo, Al>>, "FIXED_SHARES", NoMap, NoMap) }

\* a negative amount, no participants
MalformedRequests ==
    { Request(-10, Single(Bo), <<Bo>>, "EQUAL", NoMap, NoMap),
      Request(20, Single(Bo), <<>>, "EQUAL", NoMap, NoMap) }

\* one participant who is also the sole payer, with a fixed share a cent
\* above the amount, and with a weight of 1.01
SoloRequests ==
    { Request(20, Single(Bo), <<Bo>>, "FIXED_SHARES", NoMap, (Bo :> 30)),
      Request(3000, Single(Bo), <<Bo>>, "WEIGHTED", (Bo :> 101), NoMap) }

ActivityRequests ==
    EqualRequests \cup ScenarioRequests \cup HalfCentRequests \cup SplitRequests
        \cup WeightedRequests \cup FixedRequests \cup MalformedRequests
        \cup SoloRequests

Init ==
    /\ people = <<>>
    /\ activities = <<>>
    /\ balances = NoMap
    /\ tolerance = DefaultTolerance
    /\ remainder = 0
    /\ working_balances = NoMap
    /\ transfers = <<>>
    /\ summary = NoMap
    /\ pc = "Event"
    /\ err = "none"
    /\ raised_by = "none"
    /\ no_refs
    /\ no_call

\* the caller's variables after a method of Event returned or raised e; what
\* an earlier compute_settlement returned is gone
MutatedBy(name, by, e) ==
    /\ pc' = name
    /\ err' = e
    /\ raised_by' = IF e = "none" THEN "none" ELSE by
    /\ balances' = NoMap
    /\ transfers' = <<>>
    /\ summary' = NoMap
    /\ UNCHANGED <<tolerance, remainder, working_balances>>
    /\ UNCHANGED <<refs, call>>

\* the same when the method itself raised e
Mutated(name, e) == MutatedBy(name, name, e)

\* event.add_person(name): Person.__post_init__ rejects an empty name
AddPerson ==
    /\ Len(people) < Len(Persons)
    /\ \E name \in {Persons[Len(people) + 1].name, ""} :
          IF name = ""
          THEN /\ Mutated("add_person", "ValidationError")
               /\ UNCHANGED <<people, activities>>
          ELSE /\ people' = Append(people, Person(name, Persons[Len(people) + 1].id))
               /\ Mutated("add_person", "none")
               /\ UNCHANGED activities

\* the membership checks with the check of the payers left out
not_in_event_participants_only(request) ==
    \E i \in DOMAIN request.participants :
       request.participants[i] \notin Range(people)

\* the membership checks of add_activity fail
not_in_event(request) ==
    \/ \E i \in DOMAIN request.payer.list :
          request.payer.list[i][1] \notin Range(people)
    \/ \E i \in DOMAIN request.participants :
          request.participants[i] \notin Range(people)

\* mutant: the activity is appended before the membership checks are made
add_activity_appends_first(request) ==
    LET activity == Activity(request.amount, request.payer,
                             request.participants, request.split_strategy,
                             request.weights, request.shares)
    IN IF activity.err # "none"
       THEN /\ MutatedBy("add_activity", "Activity", activity.err)
            /\ UNCHANGED <<people, activities>>
       ELSE /\ activities' = Append(activities, activity.value)
            /\ Mutated("add_activity",
                       IF not_in_event(request) THEN "ValidationError"
                       ELSE "none")
            /\ UNCHANGED people

\* event.add_activity(...) called with the arguments of request
add_activity(request) ==
    LET activity == Activity(request.amount, request.payer,
                             request.participants, request.split_strategy,
                             request.weights, request.shares)
    IN IF not_in_event(request)
       THEN /\ Mutated("add_activity", "ValidationError")
            /\ UNCHANGED <<people, activities>>
       ELSE IF activity.err # "none"
       THEN /\ MutatedBy("add_activity", "Activity", activity.err)
            /\ UNCHANGED <<people, activities>>
       ELSE /\ activities' = Append(activities, activity.value)
            /\ Mutated("add_activity", "none")
            /\ UNCHANGED people

\* a call of event.add_activity
AddActivity ==
    /\ Len(activities) < MaxActivities
    /\ \E request \in ActivityRequests : add_activity(request)

\* event.compute_settlement(): balances, then transfers, then the summary;
\* the first call that raises ends it
ComputeSettlement ==
    LET net == compute_net_balances(people, activities)
        mt == compute_minimal_transfers(net.value, DefaultTolerance)
        sm == compute_settlement_summary(people, activities, net.value)
    IN /\ pc' = "compute_settlement"
       /\ IF net.err # "none"
          THEN /\ err' = net.err
               /\ raised_by' = "compute_net_balances"
               /\ balances' = NoMap
               /\ transfers' = <<>>
               /\ summary' = NoMap
          ELSE IF mt.err # "none"
          THEN /\ err' = mt.err
               /\ raised_by' = "compute_minimal_transfers"
               /\ balances' = net.value
               /\ transfers' = <<>>
               /\ summary' = NoMap
          ELSE IF sm.err # "none"
          THEN /\ err' = sm.err
               /\ raised_by' = "compute_settlement_summary"
               /\ balances' = net.value
               /\ transfers' = mt.transfers
               /\ summary' = NoMap
          ELSE /\ err' = "none"
               /\ raised_by' = "none"
               /\ balances' = net.value
               /\ transfers' = mt.transfers
               /\ summary' = sm.value
       /\ UNCHANGED <<people, activities, tolerance, remainder, working_balances>>
       /\ UNCHANGED <<refs, call>>

Next == AddPerson \/ AddActivity \/ ComputeSettlement

Spec == Init /\ [][Next]_vars

----------------------------------------------------------------------------
(* The debt simplification loop, one iteration at a time, on balance       *)
(* mappings and tolerances drawn from bounded sets.  A tolerance is the    *)
(* largest residual treated as cleared, so it is never negative.           *)

BalanceValues == {5 * k : k \in (-2 * MaxCents)..(2 * MaxCents)}

Tolerances == {0, Cent, DefaultTolerance}

InitTransfers ==
    /\ people = <<>>
    /\ activities = <<>>
    /\ balances \in [PersonSet -> BalanceValues]
    /\ tolerance \in Tolerances
    /\ remainder = 0
    /\ working_balances = balances
    /\ transfers = <<>>
    /\ summary = NoMap
    /\ pc = "loop"
    /\ err = "none"
    /\ raised_by = "none"
    /\ no_refs
    /\ no_call

\* one pass through the body of `while True` that does not break
Iterate ==
    /\ pc = "loop"
    /\ ~loop_done(working_balances, tolerance)
    /\ transfers' = Append(transfers, loop_transfer(working_balances, tolerance))
    /\ working_balances' = loop_update(working_balances, tolerance)
    /\ UNCHANGED <<people, activities, balances, tolerance, remainder, summary,
                   pc, err, raised_by>>
    /\ UNCHANGED <<refs, call>>

\* the break, the final check, the sort and the return
Finish ==
    /\ pc = "loop"
    /\ loop_done(working_balances, tolerance)
    /\ IF final_check_fails(working_balances, tolerance)
       THEN /\ pc' = "raised"
            /\ err' = "RoundingError"
            /\ raised_by' = "compute_minimal_transfers"
            /\ UNCHANGED transfers
       ELSE /\ pc' = "returned"
            /\ transfers' = sort_transfers(transfers)
            /\ UNCHANGED <<err, raised_by>>
    /\ UNCHANGED <<people, activities, balances, tolerance, remainder,
                   working_balances, summary>>
    /\ UNCHANGED <<refs, call>>

NextTransfers == Iterate \/ Finish

SpecTransfers == InitTransfers /\ [][NextTransfers]_vars

\* the loop is sequential code: a step that can be taken is taken
SpecTransfersFair == SpecTransfers /\ WF_vars(NextTransfers)

----------------------------------------------------------------------------
(* compute_minimal_transfers on a dict: the mapping b together with the    *)
(* insertion order of its keys.  The lists of creditors and debtors are    *)
(* built in that order and sorted with list.sort, which is stable.         *)

\* list(working_balances.items()) for the key order `order`
items(order, wb) == [i \in DOMAIN order |-> <<order[i], wb[order[i]]>>]

RECURSIVE list_sort(_, _)
\* list.sort(key=...): repeatedly the earliest element no other is less than
list_sort(list, key) ==
    IF list = <<>> THEN <<>>
    ELSE LET i == CHOOSE j \in DOMAIN list :
                     /\ \A k \in DOMAIN list : ~KeyLess(key[list[k]], key[list[j]])
                     /\ \A k \in 1..(j - 1) : KeyLess(key[list[j]], key[list[k]])
             rest == [k \in 1..(Len(list) - 1) |->
                        IF k < i THEN list[k] ELSE list[k + 1]]
         IN <<list[i]>> \o list_sort(rest, key)

\* mutant: creditors sorted by balance alone, without name and id
creditor_key_balance_only(x) == <<-x[2], "Al", 0>>

\* key=lambda x: (-x[1], x[0].name, str(x[0].id))
creditor_key(x) == <<-x[2], x[1].name, x[1].id>>

\* key=lambda x: (x[1], x[0].name, str(x[0].id))
debtor_key(x) == <<x[2], x[1].name, x[1].id>>

\* the sorted list of creditors of one iteration
creditors_list(order, wb, tol) ==
    LET above(x) == x[2] > tol
        list == SelectSeq(items(order, wb), above)
    IN list_sort(list, [x \in Range(list) |-> creditor_key(x)])

\* the sorted list of debtors of one iteration
debtors_list(order, wb, tol) ==
    LET below(x) == x[2] < -tol
        list == SelectSeq(items(order, wb), below)
    IN list_sort(list, [x \in Range(list) |-> debtor_key(x)])

RECURSIVE while_loop(_, _, _, _)
\* the while loop on the dict, run to its break
while_loop(order, wb, ts, tol) ==
    LET cs == creditors_list(order, wb, tol)
        ds == debtors_list(order, wb, tol)
    IN IF cs = <<>> \/ ds = <<>>
       THEN [working_balances |-> wb, transfers |-> ts]
       ELSE LET c == cs[1][1]
                d == ds[1][1]
                t == round_money(Min(cs[1][2], -ds[1][2]))
            IN while_loop(order,
                          [wb EXCEPT ![c] = round_money(@ - t),
                                     ![d] = round_money(@ + t)],
                          Append(ts, SettlementTransfer(d, c, t)), tol)

\* the final check walks the dict in its order and raises for the first
\* balance outside tolerance
first_outside(order, wb, tol) ==
    LET outside(x) == Abs(x[2]) > tol IN SelectSeq(items(order, wb), outside)

\* compute_minimal_transfers(balances, tolerance) for a dict with the key
\* order `order`: the error, the person its message names, the transfers
minimal_transfers_of(order, b, tol) ==
    LET r == while_loop(order, b, <<>>, tol)
        out == first_outside(order, r.working_balances, tol)
    IN IF out # <<>>
       THEN [err |-> "RoundingError", named |-> <<out[1][1]>>, transfers |-> <<>>]
       ELSE [err |-> "none", named |-> <<>>,
             transfers |-> sort_transfers(r.transfers)]

\* the orders in which a dict can hold the keys S
RECURSIVE Orders(_)
Orders(S) ==
    IF S = {} THEN {<<>>}
    ELSE UNION {{<<p>> \o o : o \in Orders(S \ {p})} : p \in S}

\* a dict of balances: people holds the insertion order of its keys
InitOrder ==
    /\ people \in Orders(PersonSet)
    /\ activities = <<>>
    /\ balances \in [PersonSet -> BalanceValues]
    /\ tolerance \in Tolerances
    /\ remainder = 0
    /\ working_balances = NoMap
    /\ transfers = <<>>
    /\ summary = NoMap
    /\ pc = "start"
    /\ err = "none"
    /\ raised_by = "none"
    /\ no_refs
    /\ no_call

\* transfers = compute_minimal_transfers(balances, tolerance)
CallMinimalTransfers ==
    /\ pc = "start"
    /\ LET r == minimal_transfers_of(people, balances, tolerance) IN
          /\ transfers' = r.transfers
          /\ err' = r.err
          /\ raised_by' = IF r.err = "none" THEN "none"
                          ELSE "compute_minimal_transfers"
    /\ pc' = "compute_minimal_transfers"
    /\ UNCHANGED <<people, activities, balances, tolerance, remainder,
                   working_balances, summary>>
    /\ UNCHANGED <<refs, call>>

NextOrder == CallMinimalTransfers

SpecOrder == InitOrder /\ [][NextOrder]_vars

----------------------------------------------------------------------------
(* The reconciliation functions, called once on a balance mapping, a       *)
(* tolerance and a remainder drawn from bounded sets; the mapping holds    *)
(* any number of the people, none included.                               *)

InitZeroSum ==
    /\ people = <<>>
    /\ activities = <<>>
    /\ balances \in UNION {[S -> BalanceValues] : S \in SUBSET PersonSet}
    /\ tolerance \in Tolerances
    /\ remainder = 0
    /\ working_balances = NoMap
    /\ transfers = <<>>
    /\ summary = NoMap
    /\ pc = "start"
    /\ err = "none"
    /\ raised_by = "none"
    /\ no_refs
    /\ no_call

\* the caller's variables after a call of utils returned or raised r
Called(name, r) ==
    /\ pc' = name
    /\ working_balances' = r.value
    /\ err' = r.err
    /\ raised_by' = IF r.err = "none" THEN "none" ELSE name
    /\ UNCHANGED <<people, activities, balances, tolerance, transfers, summary>>
    /\ UNCHANGED <<refs, call>>

\* adjusted = ensure_zero_sum(balances, tolerance)
CallEnsureZeroSum ==
    /\ pc = "start"
    /\ Called("ensure_zero_sum", ensure_zero_sum(balances, tolerance))
    /\ UNCHANGED remainder

\* adjusted = distribute_remainder(balances, remainder, tolerance)
CallDistributeRemainder ==
    /\ pc = "start"
    /\ \E rem \in BalanceValues :
          /\ remainder' = rem
          /\ Called("distribute_remainder",
                    distribute_remainder(balances, rem, tolerance))

\* the last lines of compute_net_balances on the accumulated balances
CallReconcile ==
    /\ pc = "start"
    /\ tolerance = NetTolerance
    /\ Called("compute_net_balances", reconcile(balances))
    /\ UNCHANGED remainder

NextZeroSum == CallEnsureZeroSum \/ CallDistributeRemainder \/ CallReconcile

SpecZeroSum == InitZeroSum /\ [][NextZeroSum]_vars

----------------------------------------------------------------------------
(* The functions that are handed a balance mapping, on dict objects: a     *)
(* dict is an entry of heap, a reference is its position, and the caller   *)
(* keeps the reference it passed.  balances holds the entries the caller's *)
(* dict had before the call.                                               *)

\* mutant: the working copy is the caller's dict itself
copy_aliased(h, ref) == [heap |-> h, ref |-> ref]

\* dict.copy(): a new dict with the same entries
copy(h, ref) == [heap |-> Append(h, h[ref]), ref |-> Len(h) + 1]

\* the outcome of a call: the exception or "none", the heap it leaves, and
\* the reference it returns (0 when it returns no dict)
Outcome(e, h, ref) == [err |-> e, heap |-> h, ref |-> ref]

\* distribute_remainder(balances, remainder, tolerance) on the dict at ref
distribute_remainder_ref(h, ref, rem, tol) ==
    IF exceeds_tolerance(rem, tol) THEN Outcome("RoundingError", h, 0)
    ELSE IF rem = 0 THEN Outcome("none", copy(h, ref).heap, copy(h, ref).ref)
    ELSE LET sorted == sorted_people(h[ref])
             adjusted == copy(h, ref)
         IN Outcome("none",
                    [adjusted.heap EXCEPT ![adjusted.ref] =
                        distribute(@, sorted, rem, IF rem > 0 THEN Cent ELSE -Cent)],
                    adjusted.ref)

\* ensure_zero_sum(balances, tolerance) on the dict at ref
ensure_zero_sum_ref(h, ref, tol) ==
    LET total == SumValues(h[ref]) IN
    IF Abs(total) <= tol
    THEN IF total # 0 THEN distribute_remainder_ref(h, ref, total, tol)
         ELSE Outcome("none", copy(h, ref).heap, copy(h, ref).ref)
    ELSE Outcome("RoundingError", h, 0)

\* compute_minimal_transfers(balances, tolerance) on the dict at ref: the
\* loop writes into working_balances
compute_minimal_transfers_ref(h, ref, tol) ==
    LET working == copy(h, ref)
        r == simplify(working.heap[working.ref], <<>>, tol)
        after == [working.heap EXCEPT ![working.ref] = r.working_balances]
    IN IF final_check_fails(r.working_balances, tol)
       THEN [err |-> "RoundingError", heap |-> after, transfers |-> <<>>]
       ELSE [err |-> "none", heap |-> after,
             transfers |-> sort_transfers(r.transfers)]

\* the Event whose summary is asked for: everybody, and one activity
SummarisedActivities ==
    <<Activity(20, Single(Bo), <<Bo, Bob>>, "EQUAL", NoMap, NoMap).value>>

InitCaller ==
    /\ people = Persons
    /\ activities = SummarisedActivities
    /\ balances \in [PersonSet -> BalanceValues]
    /\ tolerance \in Tolerances
    /\ remainder = 0
    /\ working_balances = NoMap
    /\ transfers = <<>>
    /\ summary = NoMap
    /\ pc = "start"
    /\ err = "none"
    /\ raised_by = "none"
    /\ heap = <<balances>>
    /\ argument = 1
    /\ returned = 0
    /\ no_call

\* the caller's variables after the call of name ended with e
Ended(name, e) ==
    /\ pc' = name
    /\ err' = e
    /\ raised_by' = IF e = "none" THEN "none" ELSE name
    /\ UNCHANGED <<people, activities, balances, tolerance, working_balances,
                   argument>>
    /\ UNCHANGED call

\* adjusted = ensure_zero_sum(balances, tolerance)
PassToEnsureZeroSum ==
    /\ pc = "start"
    /\ LET r == ensure_zero_sum_ref(heap, argument, tolerance) IN
          /\ heap' = r.heap
          /\ returned' = r.ref
          /\ Ended("ensure_zero_sum", r.err)
    /\ UNCHANGED <<remainder, transfers, summary>>

\* adjusted = distribute_remainder(balances, remainder, tolerance)
PassToDistributeRemainder ==
    /\ pc = "start"
    /\ \E rem \in BalanceValues :
          LET r == distribute_remainder_ref(heap, argument, rem, tolerance) IN
          /\ remainder' = rem
          /\ heap' = r.heap
          /\ returned' = r.ref
          /\ Ended("distribute_remainder", r.err)
    /\ UNCHANGED <<transfers, summary>>

\* transfers = compute_minimal_transfers(balances, tolerance)
PassToMinimalTransfers ==
    /\ pc = "start"
    /\ LET r == compute_minimal_transfers_ref(heap, argument, tolerance) IN
          /\ heap' = r.heap
          /\ transfers' = r.transfers
          /\ Ended("compute_minimal_transfers", r.err)
    /\ UNCHANGED <<remainder, summary, returned>>

\* summary = compute_settlement_summary(event, balances): the dict is read
PassToSettlementSummary ==
    /\ pc = "start"
    /\ LET r == compute_settlement_summary(people, activities, heap[argument]) IN
          /\ summary' = r.value
          /\ Ended("compute_settlement_summary", r.err)
    /\ UNCHANGED <<remainder, transfers, heap, returned>>

NextCaller ==
    \/ PassToEnsureZeroSum
    \/ PassToDistributeRemainder
    \/ PassToMinimalTransfers
    \/ PassToSettlementSummary

SpecCaller == InitCaller /\ [][NextCaller]_vars

----------------------------------------------------------------------------
(* round_money on amounts given in tenths of a mill (0.0001), around 0 and *)
(* around 10.55, and round_money of what it returned.                      *)

TenthsPerMill == 10

\* amounts reach this many tenths of a mill above and below each base
MaxOffset == 300

AmountBases == {0, 105500}

InitRound ==
    /\ people = <<>>
    /\ activities = <<>>
    /\ balances = NoMap
    /\ tolerance = DefaultTolerance
    /\ remainder = 0
    /\ working_balances = NoMap
    /\ transfers = <<>>
    /\ summary = NoMap
    /\ pc = "start"
    /\ err = "none"
    /\ raised_by = "none"
    /\ no_refs
    /\ input \in {base + k : base \in AmountBases, k \in (-MaxOffset)..MaxOffset}
    /\ result = <<>>

\* rounded = round_money(amount)
CallRoundMoney ==
    /\ pc = "start"
    /\ result' = quantize(input, TenthsPerMill, MoneyPlaces)
    /\ pc' = "round_money"
    /\ UNCHANGED <<people, activities, balances, tolerance, remainder,
                   working_balances, transfers, summary, err, raised_by, refs,
                   input>>

\* rounded = round_money(rounded)
CallRoundMoneyAgain ==
    /\ pc = "round_money"
    /\ result' = round_money(result)
    /\ pc' = "round_money_again"
    /\ UNCHANGED <<people, activities, balances, tolerance, remainder,
                   working_balances, transfers, summary, err, raised_by, refs,
                   input>>

NextRound == CallRoundMoney \/ CallRoundMoneyAgain

SpecRound == InitRound /\ [][NextRound]_vars

----------------------------------------------------------------------------
(* Activity construction and the share queries of strategies.py, on the    *)
(* arguments of one Activity drawn from bounded sets.                      *)

StrategyAmounts == {0, 10, 20}

ParticipantLists ==
    {<<>>, <<Bo>>, <<Bo, Al>>, <<Al, Bob>>, <<Bo, Al, Bob>>, <<Bob, Bob>>}

PayerAmounts == {-10, 0, 5, 10, 20}

Payers ==
    {Single(Bo), Split(<<>>)}
        \cup {Split(<<<<Bo, x>>, <<Al, y>>>>) : x, y \in PayerAmounts}

WeightValues == {0, 50, 51, 100, 200}

ShareValues == {-10, 0, 5, 10, 20, 30}

\* None, and the dicts from some of the people to the values
Dicts(values) ==
    {NoMap} \cup UNION {[keys -> values] : keys \in (SUBSET PersonSet) \ {{}}}

\* $100 equal between two; $90 weighted 2:1; fixed shares summing to 110
\* against 100; several payers paying 90 against 100
ExampleRequests ==
    { Request(100000, Single(Bo), <<Bo, Al>>, "EQUAL", NoMap, NoMap),
      Request(90000, Single(Bob), <<Bo, Bob>>, "WEIGHTED",
              (Bo :> 200) @@ (Bob :> 100), NoMap),
      Request(100000, Single(Bo), <<Bo, Al>>, "FIXED_SHARES", NoMap,
              (Bo :> 60000) @@ (Al :> 50000)),
      Request(100000, Split(<<<<Bo, 50000>>, <<Al, 40000>>>>), <<Bo, Al>>,
              "EQUAL", NoMap, NoMap) }

ConstructionRequests ==
    {Request(a, payer, ps, "EQUAL", NoMap, NoMap) :
        a \in StrategyAmounts, payer \in Payers, ps \in ParticipantLists}
    \cup {Request(a, Single(Bo), ps, "WEIGHTED", w, NoMap) :
        a \in StrategyAmounts, ps \in ParticipantLists, w \in Dicts(WeightValues)}
    \cup {Request(a, Single(Bo), ps, "FIXED_SHARES", NoMap, sh) :
        a \in StrategyAmounts, ps \in ParticipantLists, sh \in Dicts(ShareValues)}
    \cup ExampleRequests

InitStrategies ==
    /\ people = <<>>
    /\ activities = <<>>
    /\ balances = NoMap
    /\ tolerance = DefaultTolerance
    /\ remainder = 0
    /\ working_balances = NoMap
    /\ transfers = <<>>
    /\ summary = NoMap
    /\ pc = "start"
    /\ err = "none"
    /\ raised_by = "none"
    /\ no_refs
    /\ input \in ConstructionRequests
    /\ result = <<>>

\* activity = Activity(...): it stands in activities, or ValidationError
Construct ==
    /\ pc = "start"
    /\ LET activity == Activity(input.amount, input.payer, input.participants,
                                input.split_strategy, input.weights, input.shares)
       IN IF activity.err # "none"
          THEN /\ pc' = "raised"
               /\ err' = activity.err
               /\ raised_by' = "Activity"
               /\ UNCHANGED activities
          ELSE /\ pc' = "Activity"
               /\ activities' = <<activity.value>>
               /\ UNCHANGED <<err, raised_by>>
    /\ UNCHANGED <<people, balances, tolerance, remainder, working_balances,
                   transfers, summary, refs, call>>

\* the caller's variables after a share query
Queried(name, r) ==
    /\ pc' = name
    /\ result' = r
    /\ err' = r.err
    /\ raised_by' = IF r.err = "none" THEN "none" ELSE name
    /\ UNCHANGED <<people, activities, balances, tolerance, remainder,
                   working_balances, transfers, summary, refs, input>>

\* shares = compute_all_shares(activity)
QueryAllShares ==
    /\ pc = "Activity"
    /\ LET r == compute_all_shares(activities[1]) IN
       Queried("compute_all_shares",
               [err |-> r.err, value |-> r.value, participant |-> <<>>])

\* share = compute_participant_share(activity, participant), for anybody
QueryParticipantShare ==
    /\ pc = "Activity"
    /\ \E participant \in PersonSet :
          LET r == compute_participant_share(activities[1], participant) IN
          Queried("compute_participant_share",
                  [err |-> r.err, value |-> r.value, participant |-> participant])

NextStrategies == Construct \/ QueryAllShares \/ QueryParticipantShare

SpecStrategies == InitStrategies /\ [][NextStrategies]_vars

----------------------------------------------------------------------------
(* Claims about compute_net_balances and Event.compute_settlement (Spec) *)

\* compute_net_balances returned in the last compute_settlement
net_balances_returned ==
    pc = "compute_settlement" /\ raised_by # "compute_net_balances"

\* C1: whenever compute_net_balances returns for an Event built through
\* add_person and add_activity, the values of the returned mapping sum to
\* exactly 0
C1_NetBalancesSumToZero ==
    net_balances_returned => SumValues(balances) = 0

\* every amount an activity was given is a whole number of cents
whole_cent_amounts(activity) ==
    /\ activity.amount % Cent = 0
    /\ \A i \in DOMAIN activity.payer.list : activity.payer.list[i][2] % Cent = 0
    /\ \A p \in DOMAIN activity.shares : activity.shares[p] % Cent = 0

\* C3: for an Event built only through add_person and add_activity, with
\* amounts in whole cents, compute_settlement does not raise RoundingError
C3_NoRoundingErrorOnValidatedInput ==
    ( /\ pc = "compute_settlement"
      /\ \A i \in DOMAIN activities : whole_cent_amounts(activities[i]) )
    => err # "RoundingError"

\* p is neither a payer nor a participant of any activity
uninvolved(p) ==
    \A i \in DOMAIN activities :
        /\ p \notin Range(activities[i].participants)
        /\ \A j \in DOMAIN activities[i].payer.list :
              activities[i].payer.list[j][1] # p

\* C7: a member of the Event who is neither a payer nor a participant of any
\* activity has net balance 0.00 in compute_net_balances, and paid, owed and
\* net 0.00 in the settlement summary
C7_UninvolvedPersonStaysAtZero ==
    \A p \in Range(people) :
        (net_balances_returned /\ uninvolved(p))
        => /\ balances[p] = 0
           /\ summary # NoMap => summary[p] = [paid |-> 0, owed |-> 0, net |-> 0]

\* the share the strategy gives before rounding is a whole number of cents
exact_to_the_cent(activity, p) ==
    CASE activity.split_strategy = "EQUAL" ->
            activity.amount % (Len(activity.participants) * Cent) = 0
      [] activity.split_strategy = "WEIGHTED" ->
            (activity.amount * activity.weights[p][1])
                % (activity.weights[p][2] * Cent) = 0
      [] OTHER -> activity.shares[p] % Cent = 0

\* no activity produces a rounding remainder: every computed share is exact
\* to the cent and each activity's shares sum to its amount
no_rounding_remainder ==
    \A i \in DOMAIN activities :
        LET shares == compute_all_shares(activities[i]) IN
        /\ shares.err = "none"
        /\ \A p \in DOMAIN shares.value : exact_to_the_cent(activities[i], p)
        /\ SumValues(shares.value) = activities[i].amount

\* what p paid as payer of one activity, read from the activity as it was
\* recorded
paid_as_payer(activity, p) ==
    IF activity.payer.tag = "Single"
    THEN IF activity.payer.list[1][1] = p THEN activity.amount ELSE 0
    ELSE SumSeq([j \in DOMAIN activity.payer.list |->
                   IF activity.payer.list[j][1] = p
                   THEN activity.payer.list[j][2] ELSE 0])

\* (total paid as payer) minus (total of their shares)
paid_minus_shares(p) ==
    SumSeq([i \in DOMAIN activities |->
              paid_as_payer(activities[i], p)
              - (IF p \in DOMAIN compute_all_shares(activities[i]).value
                 THEN compute_all_shares(activities[i]).value[p] ELSE 0)])

\* each activity's payers paid whole cents that sum to its amount
payers_exact ==
    \A i \in DOMAIN activities :
        /\ \A j \in DOMAIN activities[i].payer.list :
              activities[i].payer.list[j][2] % Cent = 0
        /\ activities[i].payer.tag = "Split"
              => SumSeq([j \in DOMAIN activities[i].payer.list |->
                           activities[i].payer.list[j][2]])
                 = activities[i].amount

\* the three activities of the scenario, in the order of the requirements
Scenario ==
    << Activity(150000, Single(Al), <<Al, Bo, Bob>>, "EQUAL", NoMap, NoMap).value,
       Activity(60000, Single(Bo), <<Al, Bo>>, "EQUAL", NoMap, NoMap).value,
       Activity(90000, Single(Bob), <<Bo, Bob>>, "WEIGHTED",
                (Bo :> 200) @@ (Bob :> 100), NoMap).value >>

\* A +70.00, B -80.00, C +10.00
ScenarioBalances ==
    (Al :> 70000) @@ (Bo :> -80000) @@ (Bob :> 10000)

\* C8 as stated: when no activity produces a rounding remainder,
\* compute_net_balances gives every person exactly (total paid as payer)
\* minus (total of their shares)
C8_PaidMinusSharesAsStated ==
    (net_balances_returned /\ no_rounding_remainder)
    => \A p \in Range(people) : balances[p] = paid_minus_shares(p)

\* C8: when no activity produces a rounding remainder and each activity's
\* payers paid whole cents that sum to its amount, compute_net_balances
\* returns and gives every person exactly (total paid as payer) minus (total
\* of their shares); the scenario yields A +70.00, B -80.00, C +10.00
C8_PaidMinusShares ==
    /\ (pc = "compute_settlement" /\ no_rounding_remainder /\ payers_exact)
       => /\ raised_by # "compute_net_balances"
          /\ \A p \in Range(people) : balances[p] = paid_minus_shares(p)
    /\ (pc = "compute_settlement" /\ activities = Scenario)
       => balances = ScenarioBalances

\* C8 witness: the balances of the scenario have been computed
C8_Witness ==
    /\ pc = "compute_settlement"
    /\ activities = Scenario
    /\ no_rounding_remainder /\ payers_exact
    /\ balances = ScenarioBalances

\* the event's activities in the order given by a sequence of positions
reordered(positions) == [i \in DOMAIN positions |-> activities[positions[i]]]

\* C13: compute_net_balances does not depend on the order of the event's
\* activities: for every permutation of event.activities it returns the same
\* balance for every person, or raises the same error.
C13_IndependentOfActivityOrder ==
    pc = "compute_settlement" =>
        \A positions \in Orders(DOMAIN activities) :
            LET other == compute_net_balances(people, reordered(positions)) IN
            IF raised_by = "compute_net_balances"
            THEN other.err = err
            ELSE other.err = "none" /\ other.value = balances

\* C13 witness: balances computed for three different activities, one of
\* them with a payment of half a cent
C13_Witness ==
    /\ net_balances_returned
    /\ Len(activities) = 3
    /\ Cardinality(Range(activities)) = 3
    /\ \E i \in DOMAIN activities : activities[i].amount % Cent # 0
    /\ \E p \in Range(people) : balances[p] # 0

\* the activity has a single participant who is also its sole payer
solo_self_paid(activity) ==
    /\ Len(activity.participants) = 1
    /\ Len(activity.payer.list) = 1
    /\ activity.payer.list[1][1] = activity.participants[1]

\* C15: an event with zero activities, or whose only activity has a single
\* participant who is also its sole payer, yields an empty transfer list
\* from compute_settlement and net 0.00 for every person.
C15_NothingToSettle ==
    ( /\ pc = "compute_settlement"
      /\ \/ activities = <<>>
         \/ Len(activities) = 1 /\ solo_self_paid(activities[1]) )
    => /\ err = "none"
       /\ transfers = <<>>
       /\ \A p \in Range(people) : balances[p] = 0 /\ summary[p].net = 0

\* C21: the participants of every accepted activity are distinct: a
\* participant list naming the same person twice is rejected, so no stored
\* activity counts a person twice when splitting.
C21_ParticipantsDistinct ==
    \A i \in DOMAIN activities :
       Cardinality(Range(activities[i].participants))
          = Len(activities[i].participants)

\* the people the arguments of an add_activity call name
named_by(request) ==
    {request.payer.list[i][1] : i \in DOMAIN request.payer.list}
       \union Range(request.participants)

\* every payer and every participant of every stored activity is in people
referential_integrity ==
    \A i \in DOMAIN activities :
       /\ \A k \in DOMAIN activities[i].payer.list :
             activities[i].payer.list[k][1] \in Range(people)
       /\ \A k \in DOMAIN activities[i].participants :
             activities[i].participants[k] \in Range(people)

\* an add_activity call naming somebody outside people raises
\* ValidationError and stores nothing
non_member_rejected ==
    \A request \in ActivityRequests :
       ( /\ ~(named_by(request) \subseteq Range(people))
         /\ add_activity(request) )
       => /\ err' = "ValidationError"
          /\ activities' = activities

\* C22: add_activity raises ValidationError when a payer or a participant
\* is not a member of event.people, and after any sequence of add_person and
\* add_activity calls on an empty event every payer and every participant of
\* every stored activity is a member of event.people.
C22_ReferentialIntegrity ==
    /\ []referential_integrity
    /\ [][non_member_rejected]_vars

\* the membership check of add_activity has rejected a call on an event
\* that has people and stores an activity
C22_Rejected ==
    /\ pc = "add_activity"
    /\ err = "ValidationError"
    /\ raised_by = "add_activity"
    /\ people # <<>>
    /\ activities # <<>>

\* C23: in the summary computed from the net balances of the event, paid
\* minus owed equals net within 0.02 for every person of the event.
C23_SummaryAgreesWithNet ==
    (pc = "compute_settlement" /\ err = "none")
    => \A p \in Range(people) :
          Abs(summary[p].paid - summary[p].owed - summary[p].net)
             <= NetTolerance

\* a summary in which somebody who paid and owes has a net that differs from
\* paid minus owed by the whole 0.02
C23_Witness ==
    /\ pc = "compute_settlement"
    /\ err = "none"
    /\ Len(activities) > 1
    /\ \E p \in Range(people) :
          /\ summary[p].paid > 0
          /\ summary[p].owed > 0
          /\ Abs(summary[p].paid - summary[p].owed - summary[p].net)
                = NetTolerance

\* C29: every activity add_activity accepted can be evaluated:
\* compute_all_shares returns a share for every participant of every stored
\* activity, and compute_net_balances and compute_settlement_summary never
\* raise StrategyError.
C29_AcceptedActivitiesEvaluate ==
    /\ \A i \in DOMAIN activities :
          /\ compute_all_shares(activities[i]).err = "none"
          /\ DOMAIN compute_all_shares(activities[i]).value
                = Range(activities[i].participants)
    /\ pc = "compute_settlement" => err # "StrategyError"

\* the event is the same after the step as before it
event_unchanged == people' = people /\ activities' = activities

\* what compute_settlement gives on the event as it is now
settlement_of_event ==
    LET net == compute_net_balances(people, activities)
        mt == compute_minimal_transfers(net.value, DefaultTolerance)
        sm == compute_settlement_summary(people, activities, net.value)
    IN IF net.err # "none" THEN <<net.err, NoMap, <<>>, NoMap>>
       ELSE IF mt.err # "none" THEN <<mt.err, net.value, <<>>, NoMap>>
       ELSE IF sm.err # "none" THEN <<sm.err, net.value, mt.transfers, NoMap>>
       ELSE <<"none", net.value, mt.transfers, sm.value>>

\* C30: an add_activity that fails with ValidationError, from the membership
\* check or from the construction of the Activity, leaves event.people and
\* event.activities as they were, so a later compute_settlement gives what
\* the event without the failed call gives; compute_settlement itself never
\* changes event.people or event.activities.
C30_FailedCallLeavesEventUnchanged ==
    /\ [][(pc' = "add_activity" /\ err' # "none") => event_unchanged]_vars
    /\ [][pc' = "compute_settlement" => event_unchanged]_vars
    /\ [](pc = "compute_settlement"
            => <<err, balances, transfers, summary>> = settlement_of_event)

\* C30 witness: the construction of the Activity failed in add_activity on
\* an event that holds two activities
C30_Witness ==
    /\ pc = "add_activity"
    /\ err = "ValidationError"
    /\ raised_by = "Activity"
    /\ Len(activities) = 2

----------------------------------------------------------------------------
(* Claims about compute_minimal_transfers (SpecTransfers) *)

WholeCents(b) == \A p \in DOMAIN b : b[p] % Cent = 0

\* a copy of b with every transfer of ts applied: the amount added to the
\* balance of from_person and subtracted from the balance of to_person
ApplyTransfers(b, ts) ==
    [p \in DOMAIN b |->
        b[p]
        + SumSeq([i \in DOMAIN ts |->
                    IF ts[i].from_person = p THEN ts[i].amount ELSE 0])
        - SumSeq([i \in DOMAIN ts |->
                    IF ts[i].to_person = p THEN ts[i].amount ELSE 0])]

\* the number of people whose balance in b exceeds the tolerance
Outside(b, tol) == Cardinality({p \in DOMAIN b : Abs(b[p]) > tol})

\* C2: when compute_minimal_transfers returns for whole-cent balances,
\* applying the returned transfers to a copy of the input leaves every
\* balance with absolute value at most the tolerance.
C2_TransfersClearBalances ==
    (pc = "returned" /\ WholeCents(balances)) =>
        \A p \in DOMAIN balances :
            Abs(ApplyTransfers(balances, transfers)[p]) <= tolerance

\* C2 witness: a return with two transfers, for whole-cent balances
C2_Witness ==
    /\ pc = "returned"
    /\ WholeCents(balances)
    /\ Len(transfers) = 2

\* C4: for whole-cent balances that sum to exactly zero,
\* compute_minimal_transfers with tolerance 0.02 does not raise RoundingError.
C4_NoRoundingErrorOnZeroSum ==
    (WholeCents(balances) /\ SumValues(balances) = 0
        /\ tolerance = DefaultTolerance) =>
        ~(pc = "raised" /\ err = "RoundingError")

\* C9: compute_minimal_transfers produces at most k - 1 transfers, k the
\* number of people whose input balance exceeds the tolerance, and none
\* when k <= 1.
C9_AtMostKMinusOneTransfers ==
    LET k == Outside(balances, tolerance) IN
    pc \in {"loop", "returned"} =>
        Len(transfers) <= (IF k <= 1 THEN 0 ELSE k - 1)

\* C9 witness: a return with as many transfers as the bound allows
C9_Witness ==
    /\ pc = "returned"
    /\ Outside(balances, tolerance) = 3
    /\ Len(transfers) = 2

\* C10: every iteration leaves the selected creditor or the selected debtor
\* within tolerance of zero and strictly lowers the number of people outside
\* tolerance, and the loop ends.
C10_LoopTerminates ==
    /\ [][(pc = "loop" /\ ~loop_done(working_balances, tolerance)) =>
            /\ \/ Abs(working_balances'[creditor_person(working_balances, tolerance)])
                    <= tolerance
               \/ Abs(working_balances'[debtor_person(working_balances, tolerance)])
                    <= tolerance
            /\ Outside(working_balances', tolerance)
                 < Outside(working_balances, tolerance)]_vars
    /\ <>(pc # "loop")

\* C10 witness: the loop has ended after two iterations
C10_Witness ==
    /\ pc # "loop"
    /\ Len(transfers) = 2
    /\ loop_done(working_balances, tolerance)

\* C11: every transfer of compute_minimal_transfers on whole-cent balances
\* (tolerance 0.02, and the other tolerances of the model) has amount > 0 and
\* from_person different from to_person, goes from a person whose input
\* balance is below -tolerance to a person whose input balance is above
\* +tolerance, and no person is the sender of one transfer and the receiver
\* of another.
C11_TransfersGoFromDebtorsToCreditors ==
    WholeCents(balances) =>
        /\ \A i \in DOMAIN transfers :
              /\ transfers[i].amount > 0
              /\ transfers[i].from_person # transfers[i].to_person
              /\ balances[transfers[i].from_person] < -tolerance
              /\ balances[transfers[i].to_person] > tolerance
        /\ \A i, j \in DOMAIN transfers :
              transfers[i].from_person # transfers[j].to_person

\* C11 witness: a transfer returned for whole-cent balances at tolerance 0.02
C11_Witness ==
    /\ pc = "returned"
    /\ tolerance = DefaultTolerance
    /\ WholeCents(balances)
    /\ Len(transfers) >= 1

\* a sorts before b by name, then id
person_before(a, b) == KeyLess(<<0, a.name, a.id>>, <<0, b.name, b.id>>)

\* a step of the loop that records a transfer and goes round again
iterates == pc = "loop" /\ pc' = "loop" /\ transfers' # transfers

\* the transfer t a step records is the one the claim describes: from the
\* debtor with the most negative working balance to the creditor with the
\* largest, ties broken by name then id, for the rounded minimum of the two
selected(t) ==
    LET wb == working_balances
        c == t.to_person
        d == t.from_person
    IN /\ transfers' = Append(transfers, t)
       /\ c \in DOMAIN wb /\ wb[c] > tolerance
       /\ \A q \in DOMAIN wb \ {c} :
             wb[q] > tolerance
                => \/ wb[q] < wb[c]
                   \/ wb[q] = wb[c] /\ person_before(c, q)
       /\ d \in DOMAIN wb /\ wb[d] < -tolerance
       /\ \A q \in DOMAIN wb \ {d} :
             wb[q] < -tolerance
                => \/ wb[q] > wb[d]
                   \/ wb[q] = wb[d] /\ person_before(d, q)
       /\ t.amount = round_money(Min(wb[c], -wb[d]))

\* C24 as stated: each iteration records the transfer from the most negative
\* debtor to the largest creditor (ties by name, then id) for min(creditor
\* balance, -debtor balance) rounded to 2 places, then subtracts that amount
\* from the creditor's working balance and adds it to the debtor's.
C24_IterationAsStated ==
    [][iterates =>
         LET t == transfers'[Len(transfers')] IN
         /\ selected(t)
         /\ working_balances' =
               [working_balances EXCEPT ![t.to_person] = @ - t.amount,
                                        ![t.from_person] = @ + t.amount]]_vars

\* C24: each iteration records that transfer, then subtracts the amount from
\* the creditor's working balance and adds it to the debtor's, each result
\* rounded to 2 places; nobody else's working balance changes.
C24_Iteration ==
    [][iterates =>
         LET t == transfers'[Len(transfers')] IN
         /\ selected(t)
         /\ working_balances' =
               [working_balances EXCEPT
                  ![t.to_person] = round_money(@ - t.amount),
                  ![t.from_person] = round_money(@ + t.amount)]]_vars

\* C24 witness: the first iteration chose between two creditors with the
\* same balance, and the creditor's new balance was rounded
C24_Witness ==
    /\ pc = "loop"
    /\ Len(transfers) = 1
    /\ \E q \in DOMAIN balances \ {transfers[1].to_person} :
          balances[q] = balances[transfers[1].to_person]
    /\ working_balances[transfers[1].to_person]
          # balances[transfers[1].to_person] - transfers[1].amount

\* transfer a comes before transfer b in the order of (from-person name,
\* from-person id, to-person name, to-person id)
transfer_before(a, b) ==
    \/ person_before(a.from_person, b.from_person)
    \/ /\ a.from_person = b.from_person
       /\ person_before(a.to_person, b.to_person)

\* C25: the list compute_minimal_transfers returns is in ascending order of
\* (from-person name, from-person id, to-person name, to-person id), whatever
\* order the loop generated the transfers in, and no (from-person, to-person)
\* pair occurs in it twice: each transfer comes strictly before the next.
C25_TransfersSortedAndUnique ==
    pc = "returned" =>
        \A i, j \in DOMAIN transfers :
           i < j => transfer_before(transfers[i], transfers[j])

\* C25 witness: two transfers returned in another order than the loop
\* generated them in
C25_Witness ==
    /\ pc = "returned"
    /\ Len(transfers) = 2
    /\ simplify(balances, <<>>, tolerance).transfers # transfers

----------------------------------------------------------------------------
(* Claims about the order of the input mapping (SpecOrder) *)

\* C12: compute_minimal_transfers does not depend on the insertion order of
\* its input mapping: a mapping holding the same entries in any other order
\* produces the identical ordered list of transfers, or raises RoundingError
\* as well.
C12_IndependentOfInsertionOrder ==
    pc = "compute_minimal_transfers" =>
        \A order \in Orders(DOMAIN balances) :
            LET other == minimal_transfers_of(order, balances, tolerance) IN
            /\ other.err = err
            /\ other.transfers = transfers

\* C12 witness: two transfers returned for a mapping in which two creditors
\* hold the same balance and the one that sorts second was inserted first
C12_Witness ==
    /\ pc = "compute_minimal_transfers"
    /\ err = "none"
    /\ Len(transfers) = 2
    /\ balances[Al] = balances[Bo] /\ balances[Al] > tolerance
    /\ people[1] = Bo /\ people[2] = Al

----------------------------------------------------------------------------
(* Claims about the caller's mapping (SpecCaller) *)

\* C14: after ensure_zero_sum, distribute_remainder, compute_minimal_transfers
\* or compute_settlement_summary returned or raised, the mapping the caller
\* passed has the same keys and values as before, and a mapping that is
\* returned is a distinct copy.
C14_CallerMappingUnchanged ==
    pc # "start" =>
        /\ DOMAIN heap[argument] = DOMAIN balances
        /\ heap[argument] = balances
        /\ (pc \in {"ensure_zero_sum", "distribute_remainder"} /\ err = "none")
              => returned \in DOMAIN heap /\ returned # argument

\* C14 witness: distribute_remainder returned a mapping that differs from
\* the one it was given
C14_Witness ==
    /\ pc = "distribute_remainder"
    /\ err = "none"
    /\ returned \in DOMAIN heap
    /\ heap[returned] # balances

----------------------------------------------------------------------------
(* Claims about round_money (SpecRound) *)

\* the distance between the amount given and the amount returned, in tenths
\* of a mill
rounding_distance == Abs(input - TenthsPerMill * result)

\* C16: round_money(amount) returns the multiple of 0.01 nearest to amount
\* and, when amount lies halfway between two multiples of 0.01, the one
\* whose last digit is even (10.545 -> 10.54, 10.555 -> 10.56); an amount in
\* whole cents is returned unchanged, and rounding the result again changes
\* nothing.
C16_RoundHalfToEven ==
    pc \in {"round_money", "round_money_again"} =>
        /\ result % Cent = 0
        /\ 2 * rounding_distance <= Cent * TenthsPerMill
        /\ 2 * rounding_distance = Cent * TenthsPerMill => (result \div Cent) % 2 = 0
        /\ input % (Cent * TenthsPerMill) = 0 => TenthsPerMill * result = input
        /\ input = 105450 => result = 10540
        /\ input = 105550 => result = 10560

\* C16 witness: 10.545 has been rounded to 10.54, twice
C16_Witness ==
    /\ pc = "round_money_again"
    /\ input = 105450
    /\ result = 10540

----------------------------------------------------------------------------
(* Claims about Activity construction and share queries (SpecStrategies) *)

\* the Activity that was constructed
constructed == activities[1]

\* e is round_money(num / den): a whole number of cents at most half a cent
\* from num / den, and the even one of two that are equally near
is_round_money_of(e, num, den) ==
    /\ e % Cent = 0
    /\ 2 * Abs(den * e - num) <= Cent * den
    /\ 2 * Abs(den * e - num) = Cent * den => (e \div Cent) % 2 = 0

\* C17: when compute_all_shares returns, its key set is exactly the
\* activity's participant set and each value is: EQUAL, round_money(amount /
\* number of participants); WEIGHTED, round_money(amount x the stored
\* weight); FIXED_SHARES, round_money(the fixed share).  $100 equal between
\* two gives 50.00 each; $90 weighted 2:1 gives 60.00 and 30.00.
C17_AllSharesByStrategy ==
    (pc = "compute_all_shares" /\ result.err = "none") =>
        /\ DOMAIN result.value = Range(constructed.participants)
        /\ \A p \in DOMAIN result.value :
              CASE constructed.split_strategy = "EQUAL" ->
                     is_round_money_of(result.value[p], constructed.amount,
                                       Len(constructed.participants))
                [] constructed.split_strategy = "WEIGHTED" ->
                     is_round_money_of(result.value[p],
                                       constructed.amount * constructed.weights[p][1],
                                       constructed.weights[p][2])
                [] OTHER ->
                     is_round_money_of(result.value[p], constructed.shares[p], 1)
        /\ (input.amount = 100000 /\ input.split_strategy = "EQUAL")
              => result.value = (Bo :> 50000) @@ (Al :> 50000)
        /\ input.amount = 90000
              => result.value = (Bo :> 60000) @@ (Bob :> 30000)

\* C17 witness: the shares of $90 weighted 2:1 have been computed
C17_Witness ==
    /\ pc = "compute_all_shares"
    /\ result.err = "none"
    /\ input.amount = 90000
    /\ result.value[Bo] = 60000

\* C18: a share query for a person who is not in the activity's participant
\* set fails with StrategyError under every split strategy, also when that
\* person has an entry in the activity's weights or shares.
C18_NonParticipantQueryFails ==
    ( /\ pc = "compute_participant_share"
      /\ result.participant \notin Range(constructed.participants) )
    => result.err = "StrategyError"

\* the arguments pass every check of the constructor other than those of
\* the weights
weights_decide ==
    /\ pc \in {"raised", "Activity"}
    /\ input.split_strategy = "WEIGHTED"
    /\ input.weights # NoMap
    /\ input.participants # <<>>
    /\ ~negative(input.amount)

\* C19: constructing a WEIGHTED activity with weights whose sum S is positive
\* stores, for every person, the supplied weight divided by S, for every
\* S > 0, including sums close to but different from 1; when S <= 0
\* construction fails with ValidationError.
C19_WeightsRenormalized ==
    weights_decide =>
        LET S == SumValues(input.weights) IN
        IF S > 0
        THEN /\ pc = "Activity"
             /\ \A p \in DOMAIN input.weights :
                   constructed.weights[p][1] * S
                      = input.weights[p] * constructed.weights[p][2]
        ELSE pc = "raised" /\ err = "ValidationError"

\* the total of the fixed shares, or of the amounts of the payers
checked_total ==
    IF input.split_strategy = "FIXED_SHARES" THEN SumValues(input.shares)
    ELSE SumSeq([i \in DOMAIN input.payer.list |-> input.payer.list[i][2]])

\* the arguments hold fixed shares or several payers, and pass the checks
\* the constructor makes before it sums them
sum_is_checked ==
    /\ pc \in {"raised", "Activity"}
    /\ ~negative(input.amount)
    /\ input.participants # <<>>
    /\ \/ input.split_strategy = "FIXED_SHARES" /\ input.shares # NoMap
       \/ input.split_strategy = "EQUAL" /\ input.payer.tag = "Split"
                                         /\ input.payer.list # <<>>

\* no share and no payer's amount is negative
none_negative ==
    /\ \A p \in DOMAIN input.shares : ~negative(input.shares[p])
    /\ \A i \in DOMAIN input.payer.list : ~negative(input.payer.list[i][2])

\* C20: construction fails with ValidationError whenever the fixed shares of
\* a FIXED_SHARES activity, or the amounts of a multi-payer list, sum to a
\* value that differs from the activity's amount by more than 0.01 (shares
\* summing to 110 against 100), and passes this check when the difference is
\* at most 0.01.
C20_SumMismatchRejected ==
    sum_is_checked =>
        IF Abs(checked_total - input.amount) > Cent
        THEN pc = "raised" /\ err = "ValidationError"
        ELSE none_negative => pc = "Activity"

\* C20 witness: fixed shares summing to 110 against 100 were rejected
C20_Witness ==
    /\ sum_is_checked
    /\ input.amount = 100000
    /\ input.split_strategy = "FIXED_SHARES"
    /\ checked_total = 110000
    /\ pc = "raised"

\* the mapping the strategy of the arguments reads: weights or shares
entries ==
    IF input.split_strategy = "WEIGHTED" THEN input.weights ELSE input.shares

\* the arguments ask for WEIGHTED or FIXED_SHARES and the constructor has run
mapping_needed ==
    /\ pc # "start"
    /\ input.split_strategy \in {"WEIGHTED", "FIXED_SHARES"}

\* some participant of the arguments has no entry in the mapping
entry_missing == \E i \in DOMAIN input.participants :
                    input.participants[i] \notin DOMAIN entries

\* the arguments pass every other check of the constructor: the weights sum
\* to more than 0; the shares are not negative and sum to the amount within
\* 0.01
otherwise_valid ==
    /\ ~negative(input.amount)
    /\ IF input.split_strategy = "WEIGHTED"
       THEN SumValues(input.weights) > 0
       ELSE /\ \A p \in DOMAIN input.shares : ~negative(input.shares[p])
            /\ Abs(SumValues(input.shares) - input.amount) <= Cent

\* C28: a WEIGHTED (FIXED_SHARES) activity whose weights (shares) mapping is
\* non-empty but has no entry for one of its participants is accepted at
\* construction, and the share query for that participant then fails with
\* StrategyError; WEIGHTED without any weights, or FIXED_SHARES without any
\* shares, is rejected at construction with ValidationError.
C28_MissingEntryFailsAtQuery ==
    mapping_needed =>
        /\ entries = NoMap => pc = "raised" /\ err = "ValidationError"
        /\ (entries # NoMap /\ entry_missing /\ otherwise_valid)
              => pc # "raised"
        /\ ( /\ pc = "compute_participant_share"
             /\ result.participant \in Range(input.participants)
             /\ result.participant \notin DOMAIN entries )
              => err = "StrategyError"
        /\ (pc = "compute_all_shares" /\ entry_missing)
              => err = "StrategyError"

\* C28 witness: fixed shares {Al: 0.02} for the participants Bo and Al were
\* accepted and the query for Bo raised StrategyError
C28_Witness ==
    /\ pc = "compute_participant_share"
    /\ input.split_strategy = "FIXED_SHARES"
    /\ input.shares # NoMap
    /\ Al \in DOMAIN input.shares
    /\ input.participants = <<Bo, Al>>
    /\ result.participant = Bo
    /\ Bo \notin DOMAIN input.shares
    /\ err = "StrategyError"

----------------------------------------------------------------------------
(* Claims about ensure_zero_sum and distribute_remainder (SpecZeroSum) *)

\* C5: when the absolute total of the balances is at most the tolerance,
\* ensure_zero_sum returns a mapping over the same people whose values sum
\* to exactly zero.
C5_EnsureZeroSumSumsToZero ==
    (pc = "ensure_zero_sum" /\ Abs(SumValues(balances)) <= tolerance) =>
        /\ err = "none"
        /\ DOMAIN working_balances = DOMAIN balances
        /\ SumValues(working_balances) = 0

\* C6: ensure_zero_sum raises RoundingError exactly when the absolute total
\* is strictly greater than the tolerance, distribute_remainder exactly when
\* abs(remainder) is, and compute_net_balances exactly when the total of the
\* rounded balances exceeds 0.02.
C6_RoundingErrorExactlyAboveTolerance ==
    /\ pc = "ensure_zero_sum" =>
          (err = "RoundingError" <=> Abs(SumValues(balances)) > tolerance)
    /\ pc = "distribute_remainder" =>
          (err = "RoundingError" <=> Abs(remainder) > tolerance)
    /\ pc = "compute_net_balances" =>
          (err = "RoundingError" <=>
             Abs(SumValues([p \in DOMAIN balances |-> round_money(balances[p])]))
               > NetTolerance)

\* C6 witness: ensure_zero_sum accepted a nonzero total equal to the tolerance
C6_Witness ==
    /\ pc = "ensure_zero_sum"
    /\ tolerance > 0
    /\ Abs(SumValues(balances)) = tolerance
    /\ err = "none"

\* C26: distribute_remainder exhausts the remainder: for every balance
\* mapping, of any number of people, and every remainder with abs(remainder)
\* <= tolerance, the values of the returned mapping sum to sum(balances) +
\* remainder.
C26_RemainderExhausted ==
    (pc = "distribute_remainder" /\ Abs(remainder) <= tolerance) =>
        /\ err = "none"
        /\ SumValues(working_balances) = SumValues(balances) + remainder

\* the number of people who come before p in ascending order of (absolute
\* balance, name, id)
rank(b, p) ==
    Cardinality({q \in DOMAIN b :
                    \/ Abs(b[q]) < Abs(b[p])
                    \/ Abs(b[q]) = Abs(b[p]) /\ person_before(q, p)})

\* k = min(abs(remainder) / 0.01, number of people)
increments(b, rem) == Min(Abs(rem) \div Cent, Cardinality(DOMAIN b))

\* C27: distribute_remainder with a nonzero whole-cent remainder within
\* tolerance changes the balance of exactly the first k people in ascending
\* order of (absolute balance, name, id), k = min(abs(remainder)/0.01, number
\* of people), each by one increment of 0.01 with the sign of the remainder,
\* and leaves every other balance unchanged; with remainder 0 it returns a
\* mapping equal to the input.
C27_FirstPeopleAdjusted ==
    ( /\ pc = "distribute_remainder"
      /\ Abs(remainder) <= tolerance
      /\ remainder % Cent = 0 )
    => /\ err = "none"
       /\ DOMAIN working_balances = DOMAIN balances
       /\ \A p \in DOMAIN balances :
             working_balances[p] =
                balances[p]
                  + (IF rank(balances, p) < increments(balances, remainder)
                     THEN (IF remainder > 0 THEN Cent ELSE -Cent)
                     ELSE 0)

\* C27 witness: a remainder of -0.02 went to two of three people, one of
\* them with a negative balance, and the person left unchanged comes before
\* one of them by name but has the larger absolute balance
C27_Witness ==
    /\ pc = "distribute_remainder"
    /\ err = "none"
    /\ remainder = -2 * Cent
    /\ DOMAIN balances = PersonSet
    /\ \E p, q \in PersonSet :
          /\ working_balances[p] = balances[p] - Cent
          /\ balances[p] < 0
          /\ working_balances[q] = balances[q]
          /\ person_before(q, p)

====
